---- MODULE Spec2Model ----
(***************************************************************************)
(* Model of WordlistGenerator (src/wordlist_gen.py): the shared word store *)
(* and the generation, transformation and filtering methods that mutate    *)
(* it.  A word is a sequence of one-character strings; an optional         *)
(* argument is <<>> (None) or <<v>> (a value).  main() is modelled as the   *)
(* pipeline of calls it makes on one generator, in both of its modes.      *)
(***************************************************************************)
EXTENDS Integers, Sequences, FiniteSets, TLC

VARIABLES wordlist, last, nops, pc, inputs, saved

vars == <<wordlist, last, nops, pc, inputs, saved>>

\* the state of main(): its position, the options it runs with and the set
\* handed to save_to_file
driver == <<pc, inputs, saved>>

\* ---------------------------------------------------------------- bounds
MaxOps == 2
MaxPatLen == 4

\* ------------------------------------------------------- optional values
None == <<>>
Some(v) == <<v>>
IsNone(o) == o = <<>>
\* Python truthiness of an optional int / optional string argument
TruthyInt(o) == o # <<>> /\ o[1] # 0
TruthyStr(o) == o # <<>> /\ o[1] # <<>>

\* ------------------------------------------------------ character tables
ascii_lowercase ==
  <<"a","b","c","d","e","f","g","h","i","j","k","l","m",
    "n","o","p","q","r","s","t","u","v","w","x","y","z">>
ascii_uppercase ==
  <<"A","B","C","D","E","F","G","H","I","J","K","L","M",
    "N","O","P","Q","R","S","T","U","V","W","X","Y","Z">>
digits == <<"0","1","2","3","4","5","6","7","8","9">>
\* string.punctuation; the grave accent cannot occur in a TLA+ string and is
\* written "GRAVE"
punctuation ==
  <<"!","\"","#","$","%","&","'","(",")","*","+",",","-",".","/",":",
    ";","<","=",">","?","@","[","\\","]","^","_","GRAVE","{","|","}","~">>

Range(s) == {s[i] : i \in 1..Len(s)}

IndexOf(s, c) == CHOOSE i \in 1..Len(s) : s[i] = c

\* str.lower / str.upper on one character
LowerChar(c) ==
  IF c \in Range(ascii_uppercase) THEN ascii_lowercase[IndexOf(ascii_uppercase, c)] ELSE c
UpperChar(c) ==
  IF c \in Range(ascii_lowercase) THEN ascii_uppercase[IndexOf(ascii_lowercase, c)] ELSE c

lower(w) == [i \in 1..Len(w) |-> LowerChar(w[i])]
upper(w) == [i \in 1..Len(w) |-> UpperChar(w[i])]
\* a plausible slip: only the first character is changed
capitalize_KeepRest(w) == [i \in 1..Len(w) |-> IF i = 1 THEN UpperChar(w[i]) ELSE w[i]]

\* str.capitalize: first character upper-cased, all the others lower-cased
capitalize(w) == [i \in 1..Len(w) |-> IF i = 1 THEN UpperChar(w[i]) ELSE LowerChar(w[i])]

isdigit(c) == c \in Range(digits)
IsSpace(c) == c \in {" ", "\t", "\n", "\r"}

\* self.charset_map, keyed by the character that follows '?'
charset_map ==
  [k \in {"l","u","d","s","a"} |->
     CASE k = "l" -> ascii_lowercase
       [] k = "u" -> ascii_uppercase
       [] k = "d" -> digits
       [] k = "s" -> punctuation
       [] k = "a" -> ascii_lowercase \o ascii_uppercase \o digits \o punctuation]

\* self.leetspeak_map
leetspeak_map ==
  [k \in {"a","e","i","o","s","t","l","g"} |->
     CASE k = "a" -> <<"4","@">>
       [] k = "e" -> <<"3">>
       [] k = "i" -> <<"1","!">>
       [] k = "o" -> <<"0">>
       [] k = "s" -> <<"5","$">>
       [] k = "t" -> <<"7">>
       [] k = "l" -> <<"1">>
       [] k = "g" -> <<"9">>]

\* ------------------------------------------------- generate_from_pattern
\* a plausible slip: '?' always consumes the character after it, so an unknown
\* token leaves only the literal '?'
RECURSIVE ParsePattern_SkipUnknown(_, _)
ParsePattern_SkipUnknown(pattern, i) ==
  IF i > Len(pattern) THEN <<>>
  ELSE IF pattern[i] = "?" /\ i + 1 <= Len(pattern)
       THEN (IF pattern[i+1] \in DOMAIN charset_map
             THEN <<charset_map[pattern[i+1]]>> ELSE << <<pattern[i]>> >>)
            \o ParsePattern_SkipUnknown(pattern, i + 2)
       ELSE << <<pattern[i]>> >> \o ParsePattern_SkipUnknown(pattern, i + 1)

\* the while loop that parses the pattern into char_sets, from index i (1-based)
RECURSIVE ParsePattern(_, _)
ParsePattern(pattern, i) ==
  IF i > Len(pattern) THEN <<>>
  ELSE IF pattern[i] = "?" /\ i + 1 <= Len(pattern) /\ pattern[i+1] \in DOMAIN charset_map
       THEN <<charset_map[pattern[i+1]]>> \o ParsePattern(pattern, i + 2)
       ELSE << <<pattern[i]>> >> \o ParsePattern(pattern, i + 1)

RECURSIVE ProductSize(_)
ProductSize(sets) ==
  IF sets = <<>> THEN 1 ELSE Len(Head(sets)) * ProductSize(Tail(sets))

\* the k-th (0-based) tuple of itertools.product(*sets): last slot varies fastest
NthProduct(sets, k) ==
  [i \in 1..Len(sets) |->
     sets[i][((k \div ProductSize(SubSeq(sets, i + 1, Len(sets)))) % Len(sets[i])) + 1]]

\* the iteration (counted from 1) at which the for loop over the product
\* ends: the first one where "count and generated >= count" holds, or the
\* last one when it never holds
PatternStop(total, count) ==
  LET breaks == {g \in 1..total : TruthyInt(count) /\ g >= count[1]}
  IN IF breaks = {} THEN total
     ELSE CHOOSE g \in breaks : \A h \in breaks : g <= h

\* the for loop over itertools.product(*char_sets): the words added and the
\* final value of the generated counter
PatternLoop(char_sets, count) ==
  LET generated == PatternStop(ProductSize(char_sets), count)
  IN [words |-> {NthProduct(char_sets, k - 1) : k \in 1..generated},
      generated |-> generated]

\* a plausible slip: no early return for a pattern without slots, so the
\* product of no sets yields its one empty tuple
PatternResult_NoEarlyReturn(pattern, count) ==
  PatternLoop(ParsePattern(pattern, 1), count)

PatternResult(pattern, count) ==
  LET char_sets == ParsePattern(pattern, 1)
  IN IF char_sets = <<>> THEN [words |-> {}, generated |-> 0]
     ELSE PatternLoop(char_sets, count)

generate_from_pattern(pattern, count) ==
  LET r == PatternResult(pattern, count)
  IN /\ wordlist' = wordlist \cup r.words
     /\ last' = [op |-> "generate_from_pattern", pre |-> wordlist,
                 generated |-> r.generated, reported |-> r.generated,
                 raised |-> FALSE,
                 args |-> [pattern |-> pattern, count |-> count]]
     /\ nops' = nops + 1

\* ------------------------------------------------- generate_from_charset
\* itertools.product(charset, repeat=length) as a list of slots
Repeat(charset, length) == [i \in 1..length |-> charset]

\* a plausible slip: reaching count leaves only the inner loop (break), so the
\* next length is still entered
RECURSIVE CharsetLoop_BreakInner(_, _, _, _, _, _, _)
CharsetLoop_BreakInner(charset, length, max_len, k, generated, acc, count) ==
  IF length > max_len THEN [words |-> acc, generated |-> generated, raised |-> FALSE]
  ELSE IF length < 0 THEN [words |-> acc, generated |-> generated, raised |-> TRUE]
  ELSE IF k >= ProductSize(Repeat(charset, length))
       THEN CharsetLoop_BreakInner(charset, length + 1, max_len, 0, generated, acc, count)
       ELSE LET word == NthProduct(Repeat(charset, length), k)
                acc2 == acc \cup {word}
                gen2 == generated + 1
            IN IF TruthyInt(count) /\ gen2 >= count[1]
               THEN CharsetLoop_BreakInner(charset, length + 1, max_len, 0, gen2, acc2, count)
               ELSE CharsetLoop_BreakInner(charset, length, max_len, k + 1, gen2, acc2, count)

\* the nested for loops: lengths ascending, product order within a length,
\* the generated counter and the return on reaching count.  A negative
\* length makes itertools.product raise ValueError.
RECURSIVE CharsetLoop(_, _, _, _, _, _, _)
CharsetLoop(charset, length, max_len, k, generated, acc, count) ==
  IF length > max_len THEN [words |-> acc, generated |-> generated, raised |-> FALSE]
  ELSE IF length < 0 THEN [words |-> acc, generated |-> generated, raised |-> TRUE]
  ELSE IF k >= ProductSize(Repeat(charset, length))
       THEN CharsetLoop(charset, length + 1, max_len, 0, generated, acc, count)
       ELSE LET word == NthProduct(Repeat(charset, length), k)
                acc2 == acc \cup {word}
                gen2 == generated + 1
            IN IF TruthyInt(count) /\ gen2 >= count[1]
               THEN [words |-> acc2, generated |-> gen2, raised |-> FALSE]
               ELSE CharsetLoop(charset, length, max_len, k + 1, gen2, acc2, count)

CharsetResult(charset, min_len, max_len, count) ==
  CharsetLoop(charset, min_len, max_len, 0, 0, {}, count)

generate_from_charset(charset, min_len, max_len, count) ==
  LET r == CharsetResult(charset, min_len, max_len, count)
  IN /\ wordlist' = wordlist \cup r.words
     /\ last' = [op |-> "generate_from_charset", pre |-> wordlist,
                 generated |-> r.generated, reported |-> r.generated,
                 raised |-> r.raised,
                 args |-> [charset |-> charset, min_len |-> min_len,
                           max_len |-> max_len, count |-> count]]
     /\ nops' = nops + 1

\* ---------------------------------------- add_personal_info_combinations
Max(a, b) == IF a >= b THEN a ELSE b
Min(a, b) == IF a <= b THEN a ELSE b

\* s[-n:]
LastN(s, n) == SubSeq(s, Max(1, Len(s) - n + 1), Len(s))

NotSeparator(c) == c \notin {"/", "-"}

common_suffixes ==
  << <<"1","2","3">>, <<"1","2","3","4">>, <<"1","2","3","4","5">>, <<"!">>, <<"@">>,
     <<"#">>, <<"1","2","3","!">>, <<"2","0","2","3">>, <<"2","0","2","4">>,
     <<"2","0","2","5">> >>
common_prefixes == << <<"@">>, <<"#">>, <<"m","y">> >>

\* the base_words list, in list order and with its duplicates
BaseWords(name, father_name, mother_name, place) ==
     (IF TruthyStr(name)
      THEN <<name[1], lower(name[1]), upper(name[1]), capitalize(name[1])>> ELSE <<>>)
  \o (IF TruthyStr(father_name)
      THEN <<father_name[1], lower(father_name[1]), capitalize(father_name[1])>> ELSE <<>>)
  \o (IF TruthyStr(mother_name)
      THEN <<mother_name[1], lower(mother_name[1]), capitalize(mother_name[1])>> ELSE <<>>)
  \o (IF TruthyStr(place)
      THEN <<place[1], lower(place[1]), upper(place[1]), capitalize(place[1])>> ELSE <<>>)

DobVariants(dob) ==
  IF ~TruthyStr(dob) THEN <<>>
  ELSE LET dob_clean == SelectSeq(dob[1], NotSeparator)
       IN IF Len(dob_clean) >= 8
          THEN LET day == SubSeq(dob_clean, 1, 2)
                   month == SubSeq(dob_clean, 3, 4)
                   year == SubSeq(dob_clean, 5, 8)
                   year_short == SubSeq(year, 3, 4)
               IN <<dob_clean, day \o month \o year, day \o month \o year_short,
                    year, year_short, day \o month, month \o year>>
          ELSE <<>>

PhoneVariants(phone) ==
  IF ~TruthyStr(phone) THEN <<>>
  ELSE LET phone_clean == SelectSeq(phone[1], isdigit)
       IN <<phone_clean, LastN(phone_clean, 4), LastN(phone_clean, 6), LastN(phone_clean, 8)>>

\* everything the for loop over base_words inserts for one base word
WordCombinations(word, dob_variants, phone_variants) ==
  IF word = <<>> THEN {}
  ELSE {word}
       \cup {word \o common_suffixes[i] : i \in 1..Len(common_suffixes)}
       \cup {common_prefixes[i] \o word : i \in 1..Len(common_prefixes)}
       \cup {word \o dob_variants[i] : i \in 1..Len(dob_variants)}
       \cup {dob_variants[i] \o word : i \in 1..Len(dob_variants)}
       \cup {word \o phone_variants[i] : i \in 1..Len(phone_variants)}
       \cup {phone_variants[i] \o word : i \in 1..Len(phone_variants)}

\* itertools.combinations(base_words[:4], 2), each pair joined
PairCombinations(base_words) ==
  LET first4 == SubSeq(base_words, 1, Min(4, Len(base_words)))
  IN IF Len(base_words) >= 2
     THEN {first4[p[1]] \o first4[p[2]] :
             p \in {q \in (1..Len(first4)) \X (1..Len(first4)) : q[1] < q[2]}}
     ELSE {}

PersonalWords(name, phone, dob, father_name, mother_name, place) ==
  LET base_words == BaseWords(name, father_name, mother_name, place)
      dob_variants == DobVariants(dob)
      phone_variants == PhoneVariants(phone)
  IN UNION {WordCombinations(base_words[i], dob_variants, phone_variants) :
              i \in 1..Len(base_words)}
     \cup PairCombinations(base_words)

add_personal_info_combinations(name, phone, dob, father_name, mother_name, place) ==
  LET added == PersonalWords(name, phone, dob, father_name, mother_name, place)
  IN /\ wordlist' = wordlist \cup added
     /\ last' = [op |-> "add_personal_info_combinations", pre |-> wordlist,
                 generated |-> 0,
                 reported |-> Cardinality(wordlist \cup added) - Cardinality(wordlist),
                 raised |-> FALSE,
                 args |-> [name |-> name, phone |-> phone, dob |-> dob,
                           father_name |-> father_name, mother_name |-> mother_name,
                           place |-> place]]
     /\ nops' = nops + 1

\* ------------------------------------------------------- apply_leetspeak
\* leet_positions of a word: the indexes whose lower-cased character has an
\* entry in leetspeak_map (the paired character is word_lower[i])
LeetPositions(word) ==
  LET word_lower == lower(word)
  IN {i \in 1..Len(word) : word_lower[i] \in DOMAIN leetspeak_map}

\* itertools.combinations(leet_positions, r), as sets of positions
Combinations(positions, r) == {c \in SUBSET positions : Cardinality(c) = r}

\* what the inner loops add for one combo: for each position of the combo and
\* each replacement of its character, a fresh copy of the word with that one
\* position replaced
ComboVariants(word, combo) ==
  LET word_lower == lower(word)
  IN {[word EXCEPT ![pos] = leetspeak_map[word_lower[pos]][k]] :
        <<pos, k>> \in {pk \in combo \X (1..2) :
                          pk[2] <= Len(leetspeak_map[word_lower[pk[1]]])}}

\* a plausible slip: the bound on the number of positions is one too high
LeetWordVariants_Bound5(word) ==
  LET leet_positions == LeetPositions(word)
      n == Cardinality(leet_positions)
  IN IF n # 0 /\ n <= 5
     THEN UNION {ComboVariants(word, combo) :
                   combo \in UNION {Combinations(leet_positions, r) :
                                      r \in 1..(Min(n + 1, 3) - 1)}}
     ELSE {}

\* the variants one word of the snapshot contributes to new_words
LeetWordVariants(word) ==
  LET leet_positions == LeetPositions(word)
      n == Cardinality(leet_positions)
  IN IF n # 0 /\ n <= 4
     THEN UNION {ComboVariants(word, combo) :
                   combo \in UNION {Combinations(leet_positions, r) :
                                      r \in 1..(Min(n + 1, 3) - 1)}}
     ELSE {}

LeetNewWords(words) == UNION {LeetWordVariants(word) : word \in words}

\* the number printed as "variations added"
LeetReported(words) == Cardinality(LeetNewWords(words))

apply_leetspeak ==
  /\ wordlist' = wordlist \cup LeetNewWords(wordlist)
  /\ last' = [op |-> "apply_leetspeak", pre |-> wordlist, generated |-> 0,
              reported |-> LeetReported(wordlist), raised |-> FALSE,
              args |-> [none |-> TRUE]]
  /\ nops' = nops + 1

\* --------------------------------------------------------- add_from_file
\* str.strip
RECURSIVE strip(_)
strip(line) ==
  IF line = <<>> THEN <<>>
  ELSE IF IsSpace(Head(line)) THEN strip(Tail(line))
  ELSE IF IsSpace(line[Len(line)]) THEN strip(SubSeq(line, 1, Len(line) - 1))
  ELSE line

\* a file is None (open raises FileNotFoundError) or the sequence of its lines
FileWords(file) ==
  IF IsNone(file) THEN {}
  ELSE {strip(file[1][i]) : i \in 1..Len(file[1])} \ {<<>>}

add_from_file(file) ==
  /\ wordlist' = wordlist \cup FileWords(file)
  /\ last' = [op |-> "add_from_file", pre |-> wordlist, generated |-> 0,
              reported |-> Cardinality(wordlist \cup FileWords(file)) - Cardinality(wordlist),
              raised |-> FALSE, args |-> [file |-> file]]
  /\ nops' = nops + 1

\* --------------------------------------------------- apply_prefix_suffix
Modified(word, prefix, suffix) ==
  (IF TruthyStr(prefix) THEN prefix[1] ELSE <<>>)
  \o word
  \o (IF TruthyStr(suffix) THEN suffix[1] ELSE <<>>)

PrefixSuffixWords(words, prefix, suffix) ==
  IF ~TruthyStr(prefix) /\ ~TruthyStr(suffix) THEN {}
  ELSE {Modified(word, prefix, suffix) : word \in words}

\* a plausible slip: the new words replace the store
PrefixSuffixStore_Replace(words, prefix, suffix) ==
  IF ~TruthyStr(prefix) /\ ~TruthyStr(suffix) THEN words
  ELSE PrefixSuffixWords(words, prefix, suffix)

\* self.wordlist.update(new_words)
PrefixSuffixStore(words, prefix, suffix) ==
  words \cup PrefixSuffixWords(words, prefix, suffix)

apply_prefix_suffix(prefix, suffix) ==
  /\ wordlist' = PrefixSuffixStore(wordlist, prefix, suffix)
  /\ last' = [op |-> "apply_prefix_suffix", pre |-> wordlist, generated |-> 0,
              reported |-> Cardinality(PrefixSuffixWords(wordlist, prefix, suffix)),
              raised |-> FALSE, args |-> [prefix |-> prefix, suffix |-> suffix]]
  /\ nops' = nops + 1

\* ------------------------------------------------------ filter_by_length
\* a plausible slip: the upper end of the range is excluded
LengthFiltered_Exclusive(words, min_len, max_len) ==
  {w \in words : min_len <= Len(w) /\ Len(w) < max_len}

LengthFiltered(words, min_len, max_len) ==
  {w \in words : min_len <= Len(w) /\ Len(w) <= max_len}

filter_by_length(min_len, max_len) ==
  /\ wordlist' = LengthFiltered(wordlist, min_len, max_len)
  /\ last' = [op |-> "filter_by_length", pre |-> wordlist, generated |-> 0,
              reported |-> Cardinality(wordlist)
                           - Cardinality(LengthFiltered(wordlist, min_len, max_len)),
              raised |-> FALSE, args |-> [min_len |-> min_len, max_len |-> max_len]]
  /\ nops' = nops + 1

\* ------------------------------------------------------- limit_wordcount
\* the subsets of S with exactly k elements
RECURSIVE KSubsets(_, _)
KSubsets(S, k) ==
  IF k = 0 THEN {{}}
  ELSE IF Cardinality(S) < k THEN {}
  ELSE LET x == CHOOSE y \in S : TRUE
       IN KSubsets(S \ {x}, k) \cup {T \cup {x} : T \in KSubsets(S \ {x}, k - 1)}

\* a plausible slip: the slice keeps one entry too many
SliceLen_OneMore(n, max_words) ==
  IF max_words >= 0 THEN Min(n, max_words + 1) ELSE Max(n + max_words, 0)

\* len(list(self.wordlist)[:max_words]); a negative max_words counts from the end
SliceLen(n, max_words) ==
  IF max_words >= 0 THEN Min(n, max_words) ELSE Max(n + max_words, 0)

\* the stores set(list(self.wordlist)[:max_words]) can be: the iteration
\* order of a set of strings is not fixed, so any subset of the sliced size
LimitOutcomes(words, max_words) ==
  IF Cardinality(words) > max_words
  THEN KSubsets(words, SliceLen(Cardinality(words), max_words))
  ELSE {words}

limit_wordcount(max_words) ==
  /\ wordlist' \in LimitOutcomes(wordlist, max_words)
  /\ last' = [op |-> "limit_wordcount", pre |-> wordlist, generated |-> 0,
              reported |-> 0, raised |-> FALSE, args |-> [max_words |-> max_words]]
  /\ nops' = nops + 1

\* ---------------------------------------------------------------- inputs
W_ae == <<"a","e">>
W_a == <<"a">>
W_4 == <<"4">>
W_aL == <<"a","L">>
W_aLx == <<"a","L","x">>
W_xy == <<"x","y">>
W_least == <<"l","e","a","s","t">>
W_dob == <<"1","5","/","0","8","/","1","9","9","0">>
W_dobShort == <<"1","/","2","/","9","9">>
W_phone == <<"+","9","1","-","9","1","2","-","3","4","5","-","6","7","8","9">>

PatternInputs == { <<>>, <<"?">>, <<"?","z">>, <<"?","d">>, <<"a","?","d">> }
CountInputs == {None, Some(1), Some(3)}
CharsetInputs == { <<>>, <<"a","b">>, <<"a","a">> }
MinLenInputs == -1..1
MaxLenInputs == {0, 2}
NoInfo ==
  [name |-> None, phone |-> None, dob |-> None, father_name |-> None,
   mother_name |-> None, place |-> None]
PersonalInputs ==
  { NoInfo,
    [NoInfo EXCEPT !.name = Some(<<>>)],
    [NoInfo EXCEPT !.name = Some(W_aLx)],
    [NoInfo EXCEPT !.place = Some(W_4), !.dob = Some(W_dob), !.phone = Some(W_phone)],
    [NoInfo EXCEPT !.father_name = Some(W_a), !.mother_name = Some(W_a),
                   !.dob = Some(W_dobShort)] }
FileInputs ==
  { None,
    Some(<< <<" ">> \o W_ae \o <<" ">>, <<>>, W_aL >>),
    Some(<< W_a, W_4, W_least >>),
    Some(<< W_xy \o <<"\n">> >>) }
AffixInputs == {None, Some(<<>>), Some(<<"x">>)}
FilterLenInputs == 1..3
MaxWordsInputs == {0, 1, 2}

\* ---------------------------------------------------------- the machine
Init ==
  /\ wordlist = {}
  /\ last = [op |-> "init", pre |-> {}, generated |-> 0, reported |-> 0,
             raised |-> FALSE, args |-> [none |-> TRUE]]
  /\ nops = 0
  /\ pc = "idle"
  /\ inputs = None
  /\ saved = None

CallGenerateFromPattern ==
  /\ nops < MaxOps
  /\ \E p \in PatternInputs, c \in CountInputs : generate_from_pattern(p, c)
  /\ UNCHANGED driver

CallGenerateFromCharset ==
  /\ nops < MaxOps
  /\ \E cs \in CharsetInputs, lo \in MinLenInputs, hi \in MaxLenInputs, c \in CountInputs :
       generate_from_charset(cs, lo, hi, c)
  /\ UNCHANGED driver

CallAddPersonalInfo ==
  /\ nops < MaxOps
  /\ \E r \in PersonalInputs :
       add_personal_info_combinations(r.name, r.phone, r.dob, r.father_name,
                                      r.mother_name, r.place)
  /\ UNCHANGED driver

CallApplyLeetspeak ==
  /\ nops < MaxOps
  /\ apply_leetspeak
  /\ UNCHANGED driver

CallAddFromFile ==
  /\ nops < MaxOps
  /\ \E f \in FileInputs : add_from_file(f)
  /\ UNCHANGED driver

CallApplyPrefixSuffix ==
  /\ nops < MaxOps
  /\ \E pre \in AffixInputs, suf \in AffixInputs : apply_prefix_suffix(pre, suf)
  /\ UNCHANGED driver

CallFilterByLength ==
  /\ nops < MaxOps
  /\ \E lo \in FilterLenInputs, hi \in FilterLenInputs : filter_by_length(lo, hi)
  /\ UNCHANGED driver

CallLimitWordcount ==
  /\ nops < MaxOps
  /\ \E m \in MaxWordsInputs : limit_wordcount(m)
  /\ UNCHANGED driver

Next ==
  \/ CallGenerateFromPattern
  \/ CallGenerateFromCharset
  \/ CallAddPersonalInfo
  \/ CallApplyLeetspeak
  \/ CallAddFromFile
  \/ CallApplyPrefixSuffix
  \/ CallFilterByLength
  \/ CallLimitWordcount

Spec == Init /\ [][Next]_vars

\* ------------------------------------------- the pattern expander alone
\* generate_from_pattern applied once to the fresh store, for every pattern of
\* at most MaxPatLen characters over PatChars and one pattern per other token
PatChars == {"?", "l", "d", "z"}

RECURSIVE SeqsUpTo(_, _)
SeqsUpTo(S, n) ==
  IF n = 0 THEN {<<>>}
  ELSE LET shorter == SeqsUpTo(S, n - 1)
       IN shorter \cup {Append(w, c) : w \in shorter, c \in S}

PatternSpace ==
  SeqsUpTo(PatChars, MaxPatLen)
  \cup { <<"?","u">>, <<"?","s">>, <<"?","a">>, <<"?","a","?">> }

ExpandPattern ==
  /\ nops = 0
  /\ \E p \in PatternSpace, c \in {None, Some(2)} : generate_from_pattern(p, c)
  /\ UNCHANGED driver

NextPattern == ExpandPattern

SpecPattern == Init /\ [][NextPattern]_vars

\* ------------------------------------------------------------ main()
\* The options main() runs with: the dictionary get_user_input returns in
\* interactive mode, the argparse namespace in CLI mode.  file is None (no -f)
\* or Some(f) with f a file as in add_from_file.
DriverPersonal == { NoInfo, [NoInfo EXCEPT !.place = Some(W_4)] }
DriverPattern == { None, Some(<<"a","?","d">>) }
DriverCharset == { None, Some(<<"a","b">>) }
DriverFile == { None, Some(Some(<< W_a, W_4, W_least >>)) }
DriverPrefix == { None, Some(<<"x">>) }
DriverSuffix == { None, Some(<<"4">>) }
DriverSpecial == { None, Some(<<"!">>), Some(<<"!","@">>) }
DriverMinLen == {-1, 1, 3}
DriverMaxLen == {2, 4}
DriverMaxWords == { None, Some(-1), Some(0), Some(1), Some(2) }

\* argparse converts --min-len, --max-len and --max-words with int and checks
\* nothing else; interactive mode has no charset, file, prefix or suffix
CliInputs ==
  [mode : {"cli"}, personal : DriverPersonal, pattern : DriverPattern,
   charset : DriverCharset, file : DriverFile, leetspeak : BOOLEAN,
   prefix : DriverPrefix, suffix : DriverSuffix, special_chars : {None},
   min_len : DriverMinLen, max_len : DriverMaxLen, max_words : DriverMaxWords]

\* what the input loops of get_user_input let through: min_len >= 1,
\* max_len >= min_len, and a max_words that is absent, zero or >= 1 (the
\* test "max_words and max_words < 1" does not reject 0)
InteractiveAccepts(i) ==
  /\ i.min_len >= 1
  /\ i.max_len >= i.min_len
  /\ ~(TruthyInt(i.max_words) /\ i.max_words[1] < 1)

InteractiveInputs ==
  {i \in [mode : {"interactive"}, personal : DriverPersonal, pattern : DriverPattern,
          charset : {None}, file : {None}, leetspeak : BOOLEAN,
          prefix : {None}, suffix : {None}, special_chars : DriverSpecial,
          min_len : DriverMinLen, max_len : DriverMaxLen, max_words : DriverMaxWords] :
     InteractiveAccepts(i)}

\* the order of the steps of main() in each mode
Pipeline(mode) ==
  IF mode = "interactive"
  THEN <<"personal", "pattern", "special", "leetspeak", "filter", "limit", "save">>
  ELSE <<"personal", "pattern", "charset", "file", "leetspeak", "affix", "filter",
         "limit", "save">>

AfterStep(mode, step) == Pipeline(mode)[IndexOf(Pipeline(mode), step) + 1]

Skip == UNCHANGED <<wordlist, last, nops>>

InitMain ==
  /\ wordlist = {}
  /\ last = [op |-> "init", pre |-> {}, generated |-> 0, reported |-> 0,
             raised |-> FALSE, args |-> [none |-> TRUE]]
  /\ nops = 0
  /\ pc = "personal"
  /\ inputs \in CliInputs \cup InteractiveInputs
  /\ saved = None

\* any([name, phone, dob, father_name, mother_name, place])
AnyPersonal(r) ==
  \E f \in {r.name, r.phone, r.dob, r.father_name, r.mother_name, r.place} : TruthyStr(f)

MainPersonal ==
  /\ pc = "personal"
  /\ IF AnyPersonal(inputs.personal)
     THEN add_personal_info_combinations(inputs.personal.name, inputs.personal.phone,
            inputs.personal.dob, inputs.personal.father_name,
            inputs.personal.mother_name, inputs.personal.place)
     ELSE Skip
  /\ pc' = AfterStep(inputs.mode, "personal")
  /\ UNCHANGED <<inputs, saved>>

MainPattern ==
  /\ pc = "pattern"
  /\ IF TruthyStr(inputs.pattern)
     THEN generate_from_pattern(inputs.pattern[1], inputs.max_words)
     ELSE Skip
  /\ pc' = AfterStep(inputs.mode, "pattern")
  /\ UNCHANGED <<inputs, saved>>

\* CLI only; a ValueError from itertools.product is not caught and ends the
\* process with a traceback
MainCharset ==
  /\ pc = "charset"
  /\ IF TruthyStr(inputs.charset)
     THEN generate_from_charset(inputs.charset[1], inputs.min_len, inputs.max_len,
                                inputs.max_words)
     ELSE Skip
  /\ pc' = IF last'.op = "generate_from_charset" /\ last'.raised /\ nops' # nops
           THEN "crashed" ELSE AfterStep(inputs.mode, "charset")
  /\ UNCHANGED <<inputs, saved>>

MainFile ==
  /\ pc = "file"
  /\ IF inputs.file # None THEN add_from_file(inputs.file[1]) ELSE Skip
  /\ pc' = AfterStep(inputs.mode, "file")
  /\ UNCHANGED <<inputs, saved>>

\* interactive only: for char in special_chars: apply_prefix_suffix(suffix=char)
RECURSIVE SpecialStore(_, _)
SpecialStore(words, chars) ==
  IF chars = <<>> THEN words
  ELSE SpecialStore(PrefixSuffixStore(words, None, Some(<<Head(chars)>>)), Tail(chars))

MainSpecial ==
  /\ pc = "special"
  /\ IF TruthyStr(inputs.special_chars)
     THEN LET chars == inputs.special_chars[1]
              before == SpecialStore(wordlist, SubSeq(chars, 1, Len(chars) - 1))
              suffix == Some(<<chars[Len(chars)]>>)
          IN /\ wordlist' = SpecialStore(wordlist, chars)
             /\ last' = [op |-> "apply_prefix_suffix", pre |-> before, generated |-> 0,
                         reported |-> Cardinality(PrefixSuffixWords(before, None, suffix)),
                         raised |-> FALSE, args |-> [prefix |-> None, suffix |-> suffix]]
             /\ nops' = nops + Len(chars)
     ELSE Skip
  /\ pc' = AfterStep(inputs.mode, "special")
  /\ UNCHANGED <<inputs, saved>>

MainLeetspeak ==
  /\ pc = "leetspeak"
  /\ IF inputs.leetspeak THEN apply_leetspeak ELSE Skip
  /\ pc' = AfterStep(inputs.mode, "leetspeak")
  /\ UNCHANGED <<inputs, saved>>

\* CLI only
MainAffix ==
  /\ pc = "affix"
  /\ IF TruthyStr(inputs.prefix) \/ TruthyStr(inputs.suffix)
     THEN apply_prefix_suffix(inputs.prefix, inputs.suffix)
     ELSE Skip
  /\ pc' = AfterStep(inputs.mode, "affix")
  /\ UNCHANGED <<inputs, saved>>

MainFilter ==
  /\ pc = "filter"
  /\ IF wordlist # {} THEN filter_by_length(inputs.min_len, inputs.max_len) ELSE Skip
  /\ pc' = AfterStep(inputs.mode, "filter")
  /\ UNCHANGED <<inputs, saved>>

MainLimit ==
  /\ pc = "limit"
  /\ IF TruthyInt(inputs.max_words) THEN limit_wordcount(inputs.max_words[1]) ELSE Skip
  /\ pc' = AfterStep(inputs.mode, "limit")
  /\ UNCHANGED <<inputs, saved>>

\* save_to_file(output) when the store is not empty, else sys.exit(1)
MainSave ==
  /\ pc = "save"
  /\ IF wordlist # {}
     THEN saved' = Some(wordlist) /\ pc' = "exit0"
     ELSE saved' = saved /\ pc' = "exit1"
  /\ UNCHANGED <<wordlist, last, nops, inputs>>

NextMain ==
  \/ MainPersonal
  \/ MainPattern
  \/ MainCharset
  \/ MainFile
  \/ MainSpecial
  \/ MainLeetspeak
  \/ MainAffix
  \/ MainFilter
  \/ MainLimit
  \/ MainSave

SpecMain == InitMain /\ [][NextMain]_vars

\* ================================================================ claims
Arg == last.args
Card(S) == Cardinality(S)

\* C1: every call of generate_from_pattern, generate_from_charset,
\* add_personal_info_combinations, apply_leetspeak, add_from_file or
\* apply_prefix_suffix keeps every word that was in the store; a step that
\* loses a word is a filter_by_length or a limit_wordcount.
AdditiveOps ==
  {"generate_from_pattern", "generate_from_charset", "add_personal_info_combinations",
   "apply_leetspeak", "add_from_file", "apply_prefix_suffix"}
C1_StoreOnlyGrows ==
  [][ /\ (last'.op \in AdditiveOps => wordlist \subseteq wordlist')
      /\ (~(wordlist \subseteq wordlist') =>
            last'.op \in {"filter_by_length", "limit_wordcount"}) ]_vars
C1_Witness ==
  /\ last.op = "apply_prefix_suffix"
  /\ last.pre # {}
  /\ last.pre \subseteq wordlist
  /\ wordlist # last.pre

\* C3: with a maximum count N >= 1, generate_from_charset (min_len >= 0) and
\* generate_from_pattern produce exactly min(N, size of the enumeration)
\* strings, and the strings inserted are exactly the first ones of the
\* enumeration order: lengths ascending, product order within a length.
RECURSIVE ConcatAll(_)
ConcatAll(seqs) == IF seqs = <<>> THEN <<>> ELSE Head(seqs) \o ConcatAll(Tail(seqs))

\* all tuples over the slots, the first slot varying slowest
RECURSIVE TuplesOver(_)
TuplesOver(slots) ==
  IF slots = <<>> THEN << <<>> >>
  ELSE LET rest == TuplesOver(Tail(slots))
       IN ConcatAll([i \in 1..Len(Head(slots)) |->
                       [j \in 1..Len(rest) |-> <<Head(slots)[i]>> \o rest[j]]])

EnumCharset(charset, lo, hi) ==
  IF lo > hi THEN <<>>
  ELSE ConcatAll([d \in 1..(hi - lo + 1) |->
                    TuplesOver([i \in 1..(lo + d - 1) |-> charset])])

EnumPattern(pattern) ==
  IF pattern = <<>> THEN <<>> ELSE TuplesOver(ParsePattern(pattern, 1))

FirstOf(enum, n) == {enum[i] : i \in 1..Min(n, Len(enum))}

C3_CapKeepsEnumerationPrefix ==
  /\ (last.op = "generate_from_charset" /\ Arg.count # None /\ Arg.count[1] >= 1
        /\ Arg.min_len >= 0) =>
       LET enum == EnumCharset(Arg.charset, Arg.min_len, Arg.max_len)
       IN /\ last.generated = Min(Arg.count[1], Len(enum))
          /\ wordlist = last.pre \cup FirstOf(enum, Arg.count[1])
  /\ (last.op = "generate_from_pattern" /\ Arg.count # None /\ Arg.count[1] >= 1) =>
       LET enum == EnumPattern(Arg.pattern)
       IN /\ last.generated = Min(Arg.count[1], Len(enum))
          /\ wordlist = last.pre \cup FirstOf(enum, Arg.count[1])
C3_Witness ==
  /\ last.op = "generate_from_charset"
  /\ Arg.charset = <<"a","b">> /\ Arg.min_len = 1 /\ Arg.max_len = 2
  /\ Arg.count = Some(3)
  /\ last.pre = {}
  /\ wordlist = { <<"a">>, <<"b">>, <<"a","a">> }
  /\ last.generated = 3

\* C4: without a cap, generate_from_pattern inserts exactly the cartesian
\* product of the slots of the pattern, where '?' followed by l, u, d, s or a
\* is one charset slot and every other character (a '?' before an unknown
\* character or at the end included) is a literal slot: every inserted word
\* has one character per slot, taken from that slot, and there are as many
\* words as the product of the slot sizes.  "?l?d" gives the 260 strings
\* letter+digit and "?z" gives the one string "?z".
ClassChars(c) ==
  CASE c = "l" -> Range(ascii_lowercase)
    [] c = "u" -> Range(ascii_uppercase)
    [] c = "d" -> Range(digits)
    [] c = "s" -> Range(punctuation)
    [] c = "a" -> Range(ascii_lowercase) \cup Range(ascii_uppercase)
                  \cup Range(digits) \cup Range(punctuation)

RECURSIVE SlotsOf(_)
SlotsOf(p) ==
  IF p = <<>> THEN <<>>
  ELSE IF Head(p) = "?" /\ Len(p) >= 2 /\ p[2] \in {"l", "u", "d", "s", "a"}
       THEN <<ClassChars(p[2])>> \o SlotsOf(SubSeq(p, 3, Len(p)))
       ELSE <<{Head(p)}>> \o SlotsOf(Tail(p))

RECURSIVE SlotProductSize(_)
SlotProductSize(slots) ==
  IF slots = <<>> THEN 1 ELSE Card(Head(slots)) * SlotProductSize(Tail(slots))

C4_PatternIsSlotProduct ==
  (last.op = "generate_from_pattern" /\ Arg.count = None /\ last.pre = {}) =>
    LET slots == SlotsOf(Arg.pattern)
    IN /\ \A w \in wordlist :
            /\ Len(w) = Len(slots)
            /\ \A i \in 1..Len(slots) : w[i] \in slots[i]
       /\ Card(wordlist) = (IF slots = <<>> THEN 0 ELSE SlotProductSize(slots))
       /\ Arg.pattern = <<"?","l","?","d">> =>
            /\ Card(wordlist) = 260
            /\ \A w \in wordlist : Len(w) = 2 /\ w[1] \in Range(ascii_lowercase)
                                              /\ w[2] \in Range(digits)
       /\ Arg.pattern = <<"?","z">> => wordlist = { <<"?","z">> }
C4_Witness ==
  /\ last.op = "generate_from_pattern"
  /\ Arg.pattern = <<"?","l","?","d">>
  /\ Arg.count = None
  /\ Card(wordlist) = 260
  /\ <<"q","7">> \in wordlist

\* C5 (as claimed): generate_from_pattern("") leaves the store unchanged, and
\* generate_from_charset leaves it unchanged and does not raise whenever
\* min_len > max_len and whenever the alphabet is empty, for every
\* min_len >= 0 (min_len = 0 included).
C5_DegenerateInputsAddNothing ==
  /\ (last.op = "generate_from_pattern" /\ Arg.pattern = <<>>) =>
       wordlist = last.pre /\ ~last.raised
  /\ (last.op = "generate_from_charset" /\ Arg.min_len > Arg.max_len) =>
       wordlist = last.pre /\ ~last.raised
  /\ (last.op = "generate_from_charset" /\ Arg.charset = <<>> /\ Arg.min_len >= 0) =>
       wordlist = last.pre /\ ~last.raised

\* C5 (amended): generate_from_pattern("") leaves the store unchanged;
\* generate_from_charset leaves it unchanged whenever min_len > max_len, and
\* whenever the alphabet is empty and min_len >= 1; with an empty alphabet and
\* min_len = 0 <= max_len it inserts the empty string and nothing else.  None
\* of these calls raises.
C5_DegenerateInputsAmended ==
  /\ (last.op = "generate_from_pattern" /\ Arg.pattern = <<>>) =>
       wordlist = last.pre /\ ~last.raised
  /\ (last.op = "generate_from_charset" /\ Arg.min_len > Arg.max_len) =>
       wordlist = last.pre /\ ~last.raised
  /\ (last.op = "generate_from_charset" /\ Arg.charset = <<>> /\ Arg.min_len >= 1) =>
       wordlist = last.pre /\ ~last.raised
  /\ (last.op = "generate_from_charset" /\ Arg.charset = <<>> /\ Arg.min_len = 0
        /\ Arg.max_len >= 0) =>
       wordlist = last.pre \cup {<<>>} /\ ~last.raised
C5_Witness ==
  /\ last.op = "generate_from_charset"
  /\ Arg.charset = <<>> /\ Arg.min_len = 1 /\ Arg.max_len = 2
  /\ last.pre # {}
  /\ wordlist = last.pre

\* C6: after filter_by_length(min_len, max_len) the store is exactly the words
\* of the previous store whose length is in [min_len, max_len]: none outside
\* the range remains, none inside it is lost, none is added, and the reported
\* removed count is the previous size minus the new size.
InRange(w, lo, hi) == lo <= Len(w) /\ Len(w) <= hi
C6_LengthFilterExact ==
  last.op = "filter_by_length" =>
    /\ \A w \in wordlist : InRange(w, Arg.min_len, Arg.max_len)
    /\ \A w \in last.pre : InRange(w, Arg.min_len, Arg.max_len) => w \in wordlist
    /\ wordlist \subseteq last.pre
    /\ last.reported = Card(last.pre) - Card(wordlist)
C6_Witness ==
  /\ last.op = "filter_by_length"
  /\ Arg.min_len = 2 /\ Arg.max_len = 2
  /\ \E w \in last.pre : Len(w) < 2
  /\ \E w \in last.pre : Len(w) > 2
  /\ \E w \in wordlist : Len(w) = 2
  /\ last.reported >= 2

\* C7: for max_words >= 1, after limit_wordcount(max_words) the store has
\* exactly min(max_words, previous size) entries and is a subset of the
\* previous store; when the previous size is <= max_words it is unchanged.
C7_LimitSize ==
  (last.op = "limit_wordcount" /\ Arg.max_words >= 1) =>
    /\ Card(wordlist) = Min(Arg.max_words, Card(last.pre))
    /\ wordlist \subseteq last.pre
    /\ Card(last.pre) <= Arg.max_words => wordlist = last.pre
C7_Witness ==
  /\ last.op = "limit_wordcount"
  /\ Arg.max_words = 2
  /\ Card(last.pre) > 2
  /\ Card(wordlist) = 2

\* the substitutable positions of a word and the replacements of a character
SubstChars == {"a", "e", "i", "o", "s", "t", "l", "g"}
SubstPositions(w) == {i \in 1..Len(w) : LowerChar(w[i]) \in SubstChars}
Replacements(c) ==
  CASE LowerChar(c) = "a" -> {"4", "@"}
    [] LowerChar(c) = "e" -> {"3"}
    [] LowerChar(c) = "i" -> {"1", "!"}
    [] LowerChar(c) = "o" -> {"0"}
    [] LowerChar(c) = "s" -> {"5", "$"}
    [] LowerChar(c) = "t" -> {"7"}
    [] LowerChar(c) = "l" -> {"1"}
    [] LowerChar(c) = "g" -> {"9"}
    [] OTHER -> {}

\* C2 (as claimed): apply_leetspeak, for every word of the snapshot with 2 to
\* 4 substitutable positions and every two of them p < q, inserts for every
\* pair of replacement characters the copy of the word with both positions
\* replaced at once.  From "ae" the store afterwards contains "43" and "@3".
C2_PairsReplacedSimultaneously ==
  last.op = "apply_leetspeak" =>
    \A w \in last.pre :
      Card(SubstPositions(w)) \in 2..4 =>
        \A p \in SubstPositions(w), q \in SubstPositions(w) :
          p < q =>
            \A x \in Replacements(w[p]), y \in Replacements(w[q]) :
              [w EXCEPT ![p] = x, ![q] = y] \in wordlist

\* v is w with some of its substitutable positions replaced by one of their
\* replacement characters (at least one position)
DerivedFrom(v, w) ==
  /\ Len(v) = Len(w)
  /\ v # w
  /\ \A i \in 1..Len(w) :
       v[i] # w[i] => i \in SubstPositions(w) /\ v[i] \in Replacements(w[i])

\* C8: apply_leetspeak skips every word with zero or more than 4
\* substitutable positions: such a word contributes no variant, so every word
\* the call adds derives from a snapshot word with 1 to 4 such positions.  A
\* word whose only substitutable position holds a or A contributes exactly
\* the two variants with '4' and '@' at that position.
C8_LeetBound ==
  last.op = "apply_leetspeak" =>
    /\ wordlist = last.pre \cup UNION {LeetWordVariants(w) : w \in last.pre}
    /\ \A w \in last.pre :
         Card(SubstPositions(w)) \notin 1..4 => LeetWordVariants(w) = {}
    /\ \A v \in wordlist \ last.pre :
         \E w \in last.pre : Card(SubstPositions(w)) \in 1..4 /\ DerivedFrom(v, w)
    /\ \A w \in last.pre :
         \A p \in 1..Len(w) :
           (SubstPositions(w) = {p} /\ LowerChar(w[p]) = "a") =>
             /\ LeetWordVariants(w) = {[w EXCEPT ![p] = "4"], [w EXCEPT ![p] = "@"]}
             /\ LeetWordVariants(w) \subseteq wordlist
C8_Witness ==
  /\ last.op = "apply_leetspeak"
  /\ W_least \in last.pre
  /\ W_a \in last.pre
  /\ <<"@">> \in wordlist \ last.pre
  /\ ~ \E v \in wordlist : v # W_least /\ DerivedFrom(v, W_least)

\* C9 (as claimed): the count apply_leetspeak reports is the number of newly
\* inserted entries, store size after the call minus store size before it.
C9_ReportedIsNewlyInserted ==
  last.op = "apply_leetspeak" =>
    last.reported = Card(wordlist) - Card(last.pre)

\* first letter capitalized, the remaining characters unchanged
TitleKeepRest(w) == <<UpperChar(Head(w))>> \o Tail(w)
\* first letter capitalized, the remaining characters lower-cased
TitleLowerRest(w) == <<UpperChar(Head(w))>> \o lower(Tail(w))

IsBaseWord(w) ==
  /\ w \in wordlist
  /\ w \o <<"1","2","3">> \in wordlist
  /\ <<"m","y">> \o w \in wordlist

\* C10 (as claimed): add_personal_info_combinations, for a non-empty name (and
\* likewise place), uses as base words the original, lower-cased and
\* upper-cased forms and a title-case form whose first letter is capitalized
\* and whose remaining characters keep their case; each is inserted.
C10_TitleCaseKeepsRest ==
  last.op = "add_personal_info_combinations" =>
    \A f \in {Arg.name, Arg.place} :
      TruthyStr(f) =>
        \A w \in {f[1], lower(f[1]), upper(f[1]), TitleKeepRest(f[1])} : IsBaseWord(w)

\* C10 (amended): the fourth base word is the capitalized form, first letter
\* upper-cased and all remaining characters lower-cased; the four forms are
\* base words and each is inserted.
C10_TitleCaseLowersRest ==
  last.op = "add_personal_info_combinations" =>
    \A f \in {Arg.name, Arg.place} :
      TruthyStr(f) =>
        \A w \in {f[1], lower(f[1]), upper(f[1]), TitleLowerRest(f[1])} : IsBaseWord(w)
C10_Witness ==
  /\ last.op = "add_personal_info_combinations"
  /\ Arg.name = Some(W_aLx)
  /\ {W_aLx, <<"a","l","x">>, <<"A","L","X">>, <<"A","l","x">>} \subseteq wordlist
  /\ <<"A","L","x">> \notin wordlist

\* C11 (as claimed): in both modes the length filter and then the count
\* limiter run after every generation and transform step, so the set handed
\* to save_to_file is not empty, holds only words of a length in
\* [min_len, max_len] and has at most max_words entries when max_words is
\* given; when the final set is empty nothing is saved and the process exits
\* with status 1.
C11_SavedSetFilteredAndLimited ==
  /\ saved # None =>
       /\ saved[1] # {}
       /\ \A w \in saved[1] : InRange(w, inputs.min_len, inputs.max_len)
       /\ inputs.max_words # None => Card(saved[1]) <= inputs.max_words[1]
  /\ (pc \in {"limit", "save", "exit0", "exit1"} /\ last.op \in AdditiveOps) =>
       wordlist = {}
  /\ pc = "exit0" => saved = Some(wordlist)
  /\ pc = "exit1" => wordlist = {} /\ saved = None
====
